---------------------------- MODULE Spec2Model ----------------------------
(***************************************************************************)
(* Model of src/Model.py: the Parqueadero ledger (cupos, vehiculos,        *)
(* historial), its persistence in archivo_json and the Vehiculo records.   *)
(*                                                                         *)
(* Python values are represented as follows.                               *)
(*   - str: a TLA+ string; None in a str-or-None slot is the string "None" *)
(*     and its JSON token is "null".  Floats given by the caller (lat,     *)
(*     lon) are carried as their decimal literal.                          *)
(*   - a "%Y-%m-%d %H:%M:%S" string: the tuple <<day, hour, minute,        *)
(*     second>>; the empty tuple is the empty / missing string.            *)
(*   - datetime: milliseconds since the start of the run.                  *)
(*   - dict: a function whose DOMAIN is the key set.                       *)
(*   - list: a sequence.                                                   *)
(***************************************************************************)
EXTENDS Integers, Sequences, FiniteSets, TLC

VARIABLES cupos, vehiculos, historial, operador_actual, archivo, ahora, ret

vars == <<cupos, vehiculos, historial, operador_actual, archivo, ahora, ret>>

---------------------------------------------------------------------------
(* Bounds of the model *)

\* capacity handed to Parqueadero(cupos) for "moto" and for "camion"
CuposMoto == 2
CuposCamion == 1
\* no vehicle leaves once historial holds this many records
MaxHist == 1
\* the same, in the runs over many visits of one plate
MaxVisitas == 5
\* the vehicles that arrive in all, in the runs over longer stays
MaxSesiones == 2

---------------------------------------------------------------------------
(* Python primitives *)

PyNone == "None"
JNull == "null"

\* str.upper() on the strings of the model
Upper(s) ==
    CASE s = "ab1" -> "AB1"
      [] s = "cd2" -> "CD2"
      [] s = "moto" -> "MOTO"
      [] s = "camion" -> "CAMION"
      [] s = "carro" -> "CARRO"
      [] s = "normal" -> "NORMAL"
      [] s = "mensual" -> "MENSUAL"
      [] s = "Mensual" -> "MENSUAL"
      [] s = "frecuente" -> "FRECUENTE"
      [] OTHER -> s

\* str.lower() on the strings of the model
Lower(s) ==
    CASE s = "AB1" -> "ab1"
      [] s = "CD2" -> "cd2"
      [] s = "MOTO" -> "moto"
      [] s = "CAMION" -> "camion"
      [] s = "CARRO" -> "carro"
      [] s = "NORMAL" -> "normal"
      [] s = "MENSUAL" -> "mensual"
      [] s = "Mensual" -> "mensual"
      [] s = "FRECUENTE" -> "frecuente"
      [] OTHER -> s

\* dict.get(k, default)
Get(d, k, default) == IF k \in DOMAIN d THEN d[k] ELSE default

\* d[k] = v on a dict
Put(d, k, v) == [x \in DOMAIN d \cup {k} |-> IF x = k THEN v ELSE d[x]]

Max(a, b) == IF a >= b THEN a ELSE b

\* datetime.strftime("%Y-%m-%d %H:%M:%S"): the sub-second part is dropped
Strftime(t) ==
    LET s == t \div 1000
    IN  <<s \div 86400, (s % 86400) \div 3600, (s % 3600) \div 60, s % 60>>

\* datetime.strptime(x, "%Y-%m-%d %H:%M:%S")
Strptime(x) == (x[1] * 86400 + x[2] * 3600 + x[3] * 60 + x[4]) * 1000

---------------------------------------------------------------------------
(* Vehiculo *)

\* Vehiculo.__init__
Vehiculo(placa, tipo, hora_entrada, cliente, visitas, lat, lon, now) ==
    [placa        |-> Upper(placa),
     tipo         |-> Lower(tipo),
     hora_entrada |-> IF hora_entrada # <<>> THEN hora_entrada
                      ELSE Strftime(now),
     cliente      |-> Lower(cliente),
     visitas      |-> visitas,
     lat          |-> lat,
     lon          |-> lon]

\* Vehiculo.to_dict
to_dict(v) ==
    [placa        |-> v.placa,
     tipo         |-> v.tipo,
     hora_entrada |-> v.hora_entrada,
     cliente      |-> v.cliente,
     visitas      |-> v.visitas,
     lat          |-> v.lat,
     lon          |-> v.lon]

\* variant: visitas is not read back
from_dict_sin_visitas(d, now) ==
    Vehiculo(Get(d, "placa", ""),
             Get(d, "tipo", ""),
             Get(d, "hora_entrada", <<>>),
             Get(d, "cliente", "normal"),
             0,
             Get(d, "lat", PyNone),
             Get(d, "lon", PyNone),
             now)

\* Vehiculo.from_dict
from_dict(d, now) ==
    Vehiculo(Get(d, "placa", ""),
             Get(d, "tipo", ""),
             Get(d, "hora_entrada", <<>>),
             Get(d, "cliente", "normal"),
             Get(d, "visitas", 0),
             Get(d, "lat", PyNone),
             Get(d, "lon", PyNone),
             now)

---------------------------------------------------------------------------
(* json.dump / json.load *)

JsonEnc(x) == IF x = PyNone THEN JNull ELSE x
JsonDec(x) == IF x = JNull THEN PyNone ELSE x

\* json.dump of a Vehiculo.to_dict() dict: None is written as null
DumpVehiculo(d) ==
    [d EXCEPT !.lat = JsonEnc(d.lat), !.lon = JsonEnc(d.lon)]

\* json.load of a stored Vehiculo dict: null is read as None
LoadVehiculo(d) ==
    [d EXCEPT !.lat = JsonDec(d.lat), !.lon = JsonDec(d.lon)]

\* json.dump of a historial record
DumpRegistro(r) ==
    [r EXCEPT !.lat = JsonEnc(r.lat), !.lon = JsonEnc(r.lon),
              !.operador = JsonEnc(r.operador)]

\* json.load of a historial record
LoadRegistro(r) ==
    [r EXCEPT !.lat = JsonDec(r.lat), !.lon = JsonDec(r.lon),
              !.operador = JsonDec(r.operador)]

\* archivo_json does not exist
Ausente == [existe |-> FALSE, valido |-> FALSE, cupos |-> <<>>,
            vehiculos |-> <<>>, historial |-> <<>>]

\* archivo_json after open(..., "w") truncated it and json.dump did not
\* finish: a proper prefix of the document, which json.load rejects
Truncado == [existe |-> TRUE, valido |-> FALSE, cupos |-> <<>>,
             vehiculos |-> <<>>, historial |-> <<>>]

\* the document guardar_datos writes
Payload(c, vs, h) ==
    [existe    |-> TRUE,
     valido    |-> TRUE,
     cupos     |-> c,
     vehiculos |-> [i \in 1..Len(vs) |-> DumpVehiculo(to_dict(vs[i]))],
     historial |-> [i \in 1..Len(h) |-> DumpRegistro(h[i])]]

\* variant: the document is written without the history
guardar_sin_historial(c, vs, h, old, outcome) ==
    CASE outcome = "ok" -> Payload(c, vs, <<>>)
      [] outcome = "open" -> old
      [] OTHER -> Truncado

\* guardar_datos: the content of archivo_json afterwards, by outcome.
\*   "ok"    the document was written
\*   "open"  open() raised, the file is untouched
\*   "write" the write stopped after the truncation
guardar_datos(c, vs, h, old, outcome) ==
    CASE outcome = "ok" -> Payload(c, vs, h)
      [] outcome = "open" -> old
      [] OTHER -> Truncado

\* a stored vehicle Vehiculo.from_dict raises on: its "placa" is null, and
\* Vehiculo.__init__ calls placa.upper() on None
sin_placa(d) == d.placa = JNull

\* archivo_json with the "placa" of its first vehicle replaced by null: a
\* document json.load accepts and Vehiculo.from_dict raises on
Danado(f) == [f EXCEPT !.vehiculos[1].placa = JNull]

\* cargar_datos: <<cupos, vehiculos, historial>> after loading f into a
\* ledger whose fields are c, vs, h.  The three assignments run in order
\* inside one try: an exception leaves the fields assigned before it.
cargar_datos(f, c, vs, h, now) ==
    IF ~f.existe THEN <<c, vs, h>>
    ELSE IF ~f.valido THEN <<c, vs, h>>
    ELSE IF \E i \in 1..Len(f.vehiculos) : sin_placa(f.vehiculos[i])
         THEN <<f.cupos, vs, h>>
    ELSE <<f.cupos,
           [i \in 1..Len(f.vehiculos) |->
               from_dict(LoadVehiculo(f.vehiculos[i]), now)],
           [i \in 1..Len(f.historial) |-> LoadRegistro(f.historial[i])]>>

---------------------------------------------------------------------------
(* Parqueadero *)

\* Parqueadero.tarifas
tarifas == [carro |-> 2000, moto |-> 1000, bici |-> 500]

\* the cupos argument of Parqueadero(cupos)
Config == [moto |-> CuposMoto, camion |-> CuposCamion]

\* sum(1 for r in self.historial if r["placa"].upper() == veh.placa.upper())
visitas_previas(h, placa) ==
    Cardinality({i \in 1..Len(h) : Upper(h[i].placa) = Upper(placa)})

\* variant: the early return taken only below zero
hay_cupo_desde_cero(available) == available >= 0

\* available > 0, the negation of the early return of registrar_entrada
hay_cupo(available) == available > 0

\* variant: a slot of every type is taken
cupos_todos_menos(c, tipo, available) ==
    [k \in DOMAIN c \cup {tipo} |->
        IF k = tipo THEN available - 1 ELSE c[k] - 1]

\* self.cupos[tipo] = available - 1
cupos_tras_entrada(c, tipo, available) == Put(c, tipo, available - 1)

\* variant: the slot is not given back
cupos_sin_devolver(c, tipo) == Put(c, tipo, Get(c, tipo, 0))

\* self.cupos[v.tipo] = self.cupos.get(v.tipo, 0) + 1
cupos_tras_salida(c, tipo) == Put(c, tipo, Get(c, tipo, 0) + 1)

\* variant: frecuente from the sixth visit on
cliente_desde_seis(cliente, visitas) ==
    IF visitas > 5 THEN "frecuente" ELSE cliente

\* the tier registrar_entrada leaves on the vehicle
cliente_tras_entrada(cliente, visitas) ==
    IF visitas >= 5 THEN "frecuente" ELSE cliente

\* variant: the low-capacity alert also when no slot is left
alertas_hasta_uno(cupo, cliente) ==
    (IF cupo <= 1 THEN <<"queda 1 cupo">> ELSE <<>>)
    \o (IF cliente = "frecuente" THEN <<"cliente frecuente">> ELSE <<>>)

\* the alerts registrar_entrada returns after the mutation
alertas_entrada(cupo, cliente) ==
    (IF cupo = 1 THEN <<"queda 1 cupo">> ELSE <<>>)
    \o (IF cliente = "frecuente" THEN <<"cliente frecuente">> ELSE <<>>)

\* variant: no minimum of one hour
horas_sin_minimo(ms) == ms \div 3600000

\* variant: a started hour is billed
horas_hacia_arriba(ms) == Max(1, (ms + 3599999) \div 3600000)

\* horas = max(1, int(segundos // 3600)), segundos = ms / 1000
horas_cobradas(ms) == Max(1, ms \div 3600000)

\* variant: mensual pays like normal
total_sin_mensual(horas, tipo, cliente) ==
    LET tarifa == Get(tarifas, tipo, 1000)
        total == horas * tarifa
    IN  IF cliente = "frecuente" THEN (total * 9) \div 10 ELSE total

\* total of registrar_salida; tarifa a multiple of 10, so * 0.9 is exact
total_a_pagar(horas, tipo, cliente) ==
    LET tarifa == Get(tarifas, tipo, 1000)
        total == horas * tarifa
    IN  IF cliente = "frecuente" THEN (total * 9) \div 10
        ELSE IF cliente = "mensual" THEN 0
        ELSE total

\* variant: the first vehicle, whatever its plate
primero_cualquiera(vs, placa) == IF Len(vs) > 0 THEN 1 ELSE 0

\* index of the first vehicle with that plate, 0 if none
primero(vs, placa) ==
    IF \E i \in 1..Len(vs) : vs[i].placa = placa
    THEN CHOOSE i \in 1..Len(vs) :
            /\ vs[i].placa = placa
            /\ \A j \in 1..(i - 1) : vs[j].placa # placa
    ELSE 0

\* list.remove at index i
Remove(s, i) == [j \in 1..(Len(s) - 1) |-> IF j < i THEN s[j] ELSE s[j + 1]]

NoRet == [kind |-> "none", ok |-> FALSE, alerts |-> <<>>, registro |-> <<>>]

\* an exception leaves the call
Raise == [kind |-> "raise", ok |-> FALSE, alerts |-> <<>>, registro |-> <<>>]

\* variant: the exception of guardar_datos is swallowed
tras_guardar_callado(outcome, valor) == valor

\* what a call that ends in self.guardar_datos() hands to its caller: its
\* return value, or the exception guardar_datos raised
tras_guardar(outcome, valor) == IF outcome = "ok" THEN valor ELSE Raise

\* timedelta(hours=24), in milliseconds
UnDia == 86400000

\* f"Vehículo {v.placa} lleva más de 24 horas estacionado."
Mensaje24(placa) ==
    CASE placa = "AB1" -> "AB1 lleva mas de 24 horas"
      [] placa = "CD2" -> "CD2 lleva mas de 24 horas"
      [] OTHER -> "lleva mas de 24 horas"

\* f"Solo queda 1 cupo para {tipo}s."
MensajeCupo(tipo) ==
    CASE tipo = "moto" -> "solo queda 1 cupo para motos"
      [] tipo = "camion" -> "solo queda 1 cupo para camions"
      [] tipo = "carro" -> "solo queda 1 cupo para carros"
      [] tipo = "bici" -> "solo queda 1 cupo para bicis"
      [] OTHER -> "solo queda 1 cupo"

\* the keys of self.cupos in the order items() yields them: the order of
\* the constructor argument, then any key added later
claves(c) ==
    SelectSeq(<<"moto", "camion", "carro", "bici">>, LAMBDA k : k \in DOMAIN c)

\* variant: a stay of exactly 24 hours is reported
estadias_desde_un_dia(vs, now) ==
    LET largas == SelectSeq(vs, LAMBDA v : now - Strptime(v.hora_entrada) >= UnDia)
    IN  [i \in 1..Len(largas) |-> Mensaje24(largas[i].placa)]

\* the first loop of alertas: one message per vehicle parked over 24 hours
estadias(vs, now) ==
    LET largas == SelectSeq(vs, LAMBDA v : now - Strptime(v.hora_entrada) > UnDia)
    IN  [i \in 1..Len(largas) |-> Mensaje24(largas[i].placa)]

\* the second loop of alertas: one message per type with one slot left
pocos_cupos(c) ==
    LET justos == SelectSeq(claves(c), LAMBDA k : c[k] = 1)
    IN  [i \in 1..Len(justos) |-> MensajeCupo(justos[i])]

\* the object a reference returned by ver_cupos or ver_ocupacion points to
Deref(ref) == IF ref = "self.cupos" THEN cupos ELSE vehiculos

\* variant: the record goes to the front
historial_al_frente(h, registro) == <<registro>> \o h

\* self.historial.append(registro)
historial_tras_salida(h, registro) == Append(h, registro)

---------------------------------------------------------------------------
(* Inputs *)

\* the plates registrar_salida is asked for
Placas == {"ab1", "CD2"}
Operadores == {"ana"}
\* how the guardar_datos of a call ends
Resultados == {"ok", "write"}
\* the same, with an open() that raises
Fallos == {"ok", "open", "write"}
\* the readings of datetime.now(): start, 10 min, 135 min and 190 min 0.5 s
\* later, which are 10 min, 125 min, 3 h 0.5 s and 55 min 0.5 s apart
Instantes == {0, 600000, 8100000, 11400500}

\* the readings of datetime.now() over a day: start, 1 h, 24 h, 24 h 0.5 s
Dias == {0, 3600000, 86400000, 86400500}

\* the Vehiculo(...) calls of the callers
Llegadas ==
    {[placa |-> "ab1", tipo |-> "MOTO", cliente |-> "normal", visitas |-> 0,
      lat |-> PyNone, lon |-> PyNone],
     [placa |-> "AB1", tipo |-> "moto", cliente |-> "Mensual", visitas |-> 7,
      lat |-> "6.267", lon |-> "-75.567"],
     [placa |-> "CD2", tipo |-> "camion", cliente |-> "frecuente", visitas |-> 0,
      lat |-> PyNone, lon |-> PyNone],
     [placa |-> "CD2", tipo |-> "carro", cliente |-> "normal", visitas |-> 0,
      lat |-> "6.267", lon |-> "-75.567"]}

\* the Vehiculo(...) calls for one plate that keeps coming back
Habituales == {a \in Llegadas : Upper(a.placa) = "AB1"}

\* the Vehiculo(...) calls without coordinates
Ocasionales == {a \in Llegadas : a.lat = PyNone}

---------------------------------------------------------------------------
(* Operations *)

\* Parqueadero.__init__ with no archivo_json on disk
Init ==
    /\ cupos = Config
    /\ vehiculos = <<>>
    /\ historial = <<>>
    /\ operador_actual = PyNone
    /\ archivo = Ausente
    /\ ahora = 0
    /\ ret = NoRet

\* a new process: Parqueadero.__init__(Config), which ends in cargar_datos
Reiniciar ==
    LET s == cargar_datos(archivo, Config, <<>>, <<>>, ahora)
    IN  /\ cupos' = s[1]
        /\ vehiculos' = s[2]
        /\ historial' = s[3]
        /\ operador_actual' = PyNone
        /\ ret' = NoRet
        /\ UNCHANGED <<archivo, ahora>>

\* archivo_json is damaged between two runs of the program: cut short, or
\* with a vehicle whose plate is null
Corromper ==
    /\ archivo.existe /\ archivo.valido
    /\ \A i \in 1..Len(archivo.vehiculos) : ~sin_placa(archivo.vehiculos[i])
    /\ \/ archivo' = Truncado
       \/ /\ Len(archivo.vehiculos) >= 1
          /\ archivo' = Danado(archivo)
    /\ UNCHANGED <<cupos, vehiculos, historial, operador_actual, ahora, ret>>

\* Parqueadero.login
login(operador_name) ==
    /\ operador_actual' = operador_name
    /\ ret' = NoRet
    /\ UNCHANGED <<cupos, vehiculos, historial, archivo, ahora>>

\* the clock moves on to a later reading
Tick(instantes) ==
    /\ \E t \in instantes : t > ahora /\ ahora' = t
    /\ UNCHANGED <<cupos, vehiculos, historial, operador_actual, archivo, ret>>

\* veh = Vehiculo(**a); Parqueadero.registrar_entrada(veh)
registrar_entrada(a, outcome) ==
    LET veh == Vehiculo(a.placa, a.tipo, <<>>, a.cliente, a.visitas,
                        a.lat, a.lon, ahora)
        tipo == veh.tipo
        available == Get(cupos, tipo, 0)
        visitas == visitas_previas(historial, veh.placa) + 1
        nuevo == [veh EXCEPT !.visitas = visitas,
                             !.cliente = cliente_tras_entrada(veh.cliente, visitas)]
        vs == Append(vehiculos, nuevo)
        cs == cupos_tras_entrada(cupos, tipo, available)
    IN  /\ IF ~hay_cupo(available)
           THEN /\ ret' = [kind |-> "tuple", ok |-> FALSE,
                           alerts |-> <<"no hay cupos">>, registro |-> <<>>]
                /\ UNCHANGED <<cupos, vehiculos, historial, archivo>>
           ELSE /\ vehiculos' = vs
                /\ cupos' = cs
                /\ archivo' = guardar_datos(cs, vs, historial, archivo, outcome)
                /\ ret' = tras_guardar(outcome,
                              [kind |-> "tuple", ok |-> TRUE,
                               alerts |-> alertas_entrada(cs[tipo], nuevo.cliente),
                               registro |-> <<>>])
                /\ UNCHANGED historial
        /\ UNCHANGED <<operador_actual, ahora>>

\* Parqueadero.registrar_salida(placa)
registrar_salida(placa_arg, outcome) ==
    LET placa == Upper(placa_arg)
        i == primero(vehiculos, placa)
    IN  /\ IF i = 0
           THEN /\ ret' = [kind |-> "None", ok |-> FALSE, alerts |-> <<>>,
                           registro |-> <<>>]
                /\ UNCHANGED <<cupos, vehiculos, historial, archivo>>
           ELSE LET v == vehiculos[i]
                    entrada == Strptime(v.hora_entrada)
                    horas == horas_cobradas(ahora - entrada)
                    registro ==
                        [placa        |-> v.placa,
                         tipo         |-> v.tipo,
                         cliente      |-> v.cliente,
                         hora_entrada |-> v.hora_entrada,
                         hora_salida  |-> Strftime(ahora),
                         horas        |-> horas,
                         total        |-> total_a_pagar(horas, v.tipo, v.cliente),
                         operador     |-> operador_actual,
                         lat          |-> v.lat,
                         lon          |-> v.lon]
                    vs == Remove(vehiculos, i)
                    cs == cupos_tras_salida(cupos, v.tipo)
                    h == historial_tras_salida(historial, registro)
                IN  /\ vehiculos' = vs
                    /\ cupos' = cs
                    /\ historial' = h
                    /\ archivo' = guardar_datos(cs, vs, h, archivo, outcome)
                    /\ ret' = tras_guardar(outcome,
                                  [kind |-> "registro", ok |-> TRUE,
                                   alerts |-> <<>>, registro |-> <<registro>>])
        /\ UNCHANGED <<operador_actual, ahora>>

\* Parqueadero.alertas
alertas ==
    /\ ret' = [kind |-> "list", ok |-> FALSE,
               alerts |-> estadias(vehiculos, ahora) \o pocos_cupos(cupos),
               registro |-> <<>>]
    /\ UNCHANGED <<cupos, vehiculos, historial, operador_actual, archivo, ahora>>

\* Parqueadero.ver_ocupacion: return self.vehiculos
ver_ocupacion ==
    /\ ret' = [kind |-> "ref", ok |-> FALSE, alerts |-> <<>>,
               registro |-> <<"self.vehiculos">>]
    /\ UNCHANGED <<cupos, vehiculos, historial, operador_actual, archivo, ahora>>

\* Parqueadero.ver_cupos: return self.cupos
ver_cupos ==
    /\ ret' = [kind |-> "ref", ok |-> FALSE, alerts |-> <<>>,
               registro |-> <<"self.cupos">>]
    /\ UNCHANGED <<cupos, vehiculos, historial, operador_actual, archivo, ahora>>

Next ==
    \/ \E a \in Llegadas, o \in Resultados : registrar_entrada(a, o)
    \/ \E p \in Placas, o \in Resultados :
          /\ Len(historial) < MaxHist \/ primero(vehiculos, Upper(p)) = 0
          /\ registrar_salida(p, o)
    \/ Reiniciar

Spec == Init /\ [][Next]_vars

\* the ledger over longer stays: every save succeeds, one process
NextTarifas ==
    \/ /\ Len(vehiculos) + Len(historial) < MaxSesiones
       /\ \E a \in Llegadas : registrar_entrada(a, "ok")
    \/ \E p \in Placas : registrar_salida(p, "ok")
    \/ \E n \in Operadores : login(n)
    \/ Tick(Instantes)

SpecTarifas == Init /\ [][NextTarifas]_vars

\* the ledger over many visits of one plate: every save succeeds
NextVisitas ==
    \/ \E a \in Habituales : registrar_entrada(a, "ok")
    \/ /\ Len(historial) < MaxVisitas \/ primero(vehiculos, "AB1") = 0
       /\ registrar_salida("ab1", "ok")
    \/ Reiniciar

SpecVisitas == Init /\ [][NextVisitas]_vars

\* the ledger when a save can fail in either way, one process
NextFallos ==
    \/ \E a \in Ocasionales, o \in Fallos : registrar_entrada(a, o)
    \/ \E p \in Placas, o \in Fallos :
          /\ Len(historial) < MaxHist \/ primero(vehiculos, Upper(p)) = 0
          /\ registrar_salida(p, o)

SpecFallos == Init /\ [][NextFallos]_vars

\* the ledger across runs of the program when archivo_json can be damaged
\* between them: every save succeeds
NextCorrupto ==
    \/ \E a \in Ocasionales : registrar_entrada(a, "ok")
    \/ \E p \in Placas :
          /\ Len(historial) < MaxHist \/ primero(vehiculos, Upper(p)) = 0
          /\ registrar_salida(p, "ok")
    \/ Corromper
    \/ Reiniciar

SpecCorrupto == Init /\ [][NextCorrupto]_vars

\* the ledger and its queries over a day and more: every save succeeds
NextConsultas ==
    \/ /\ Len(vehiculos) + Len(historial) < MaxSesiones
       /\ \E a \in Llegadas : registrar_entrada(a, "ok")
    \/ \E p \in Placas : registrar_salida(p, "ok")
    \/ Tick(Dias)
    \/ alertas
    \/ ver_ocupacion
    \/ ver_cupos

SpecConsultas == Init /\ [][NextConsultas]_vars

---------------------------------------------------------------------------
(* Properties *)

\* the vehicle types that are named anywhere: in Config, in tarifas, by callers
TiposNombrados == DOMAIN Config \cup DOMAIN tarifas

\* the number of active sessions of a type
Activos(t) == Cardinality({i \in 1..Len(vehiculos) : vehiculos[i].tipo = t})

\* what registrar_entrada returns when there is no room
SinCupos == [kind |-> "tuple", ok |-> FALSE, alerts |-> <<"no hay cupos">>,
             registro |-> <<>>]

\* whole seconds between the entry and the exit a historial record states
Segundos(r) == (Strptime(r.hora_salida) - Strptime(r.hora_entrada)) \div 1000

\* seconds rounded up to whole hours
Techo(seg) == (seg + 3599) \div 3600

\* the hourly rate of the tariff table, 1000 for a type it does not list
TarifaDe(t) ==
    IF t = "carro" THEN 2000
    ELSE IF t = "moto" THEN 1000
    ELSE IF t = "bici" THEN 500
    ELSE 1000

\* C1: for every vehicle type, the remaining capacity plus the number of
\* active sessions of that type is the configured total of that type, in
\* every state reached by construction and load, entries and exits.
C1_CapacidadConservada ==
    \A t \in TiposNombrados :
        Get(cupos, t, 0) + Activos(t) = Get(Config, t, 0)

\* a vehicle is parked while another one has left, after a restart or not
C1_Witness ==
    /\ Len(historial) >= 1
    /\ Len(vehiculos) >= 1
    /\ cupos["moto"] < CuposMoto

\* C2: registrar_entrada for a type with no remaining capacity returns the
\* no-capacity failure, with none of the advisory alerts, and leaves cupos,
\* vehiculos, historial and archivo_json as they were.
C2_SinCuposNoCambia ==
    [][\A a \in Llegadas, o \in Resultados :
          (registrar_entrada(a, o) /\ Get(cupos, Lower(a.tipo), 0) <= 0)
          => /\ ret' = SinCupos
             /\ UNCHANGED <<cupos, vehiculos, historial, archivo>>]_vars

\* an entry was refused while camion was full and vehicles were parked
C2_Witness ==
    /\ ret = SinCupos
    /\ cupos["camion"] = 0
    /\ Len(vehiculos) >= 1

\* C3: registrar_salida for a plate with no active session returns None and
\* leaves vehiculos, cupos and historial as they were.
C3_SalidaDesconocida ==
    [][\A p \in Placas, o \in Resultados :
          (/\ registrar_salida(p, o)
           /\ \A i \in 1..Len(vehiculos) : vehiculos[i].placa # Upper(p))
          => /\ ret'.kind = "None"
             /\ UNCHANGED <<cupos, vehiculos, historial>>]_vars

\* an exit was asked for a plate that is not parked while another one is
C3_Witness ==
    /\ ret.kind = "None"
    /\ Len(vehiculos) >= 1

\* C4: no two active sessions have the same plate.
C4_PlacasUnicas ==
    \A i, j \in 1..Len(vehiculos) :
        i # j => vehiculos[i].placa # vehiculos[j].placa

\* C5: after registrar_entrada a session with five or more visits is
\* frecuente, unless the caller passed it as mensual, and a session the
\* caller passed as mensual stays mensual whatever its visits.
C5_MensualPermanece ==
    [][\A a \in Habituales :
          (registrar_entrada(a, "ok") /\ ret'.ok)
          => LET v == vehiculos'[Len(vehiculos')]
             IN  /\ (v.visitas >= 5 /\ Lower(a.cliente) # "mensual")
                        => v.cliente = "frecuente"
                 /\ Lower(a.cliente) = "mensual" => v.cliente = "mensual"]_vars

\* C6: a successful registrar_entrada sets visitas to one more than the
\* number of historial records of the same plate, whatever their case and
\* whatever the caller passed; a plate with four records gets visitas 5 and
\* the tier frecuente.
C6_VisitasContadas ==
    [][\A a \in Habituales :
          (registrar_entrada(a, "ok") /\ ret'.ok)
          => LET v == vehiculos'[Len(vehiculos')]
                 n == Cardinality({i \in 1..Len(historial) :
                         Lower(historial[i].placa) = Lower(a.placa)})
             IN  /\ v.visitas = n + 1
                 /\ n = 4 => (v.visitas = 5 /\ v.cliente = "frecuente")]_vars

\* the fifth entry of a plate with four historial records was accepted
C6_Witness ==
    /\ Len(historial) = 4
    /\ ret.kind = "tuple" /\ ret.ok
    /\ Len(vehiculos) >= 1
    /\ vehiculos[Len(vehiculos)].visitas = 5
    /\ vehiculos[Len(vehiculos)].cliente = "frecuente"

\* C7: the hours a registrar_salida bills are the whole hours contained in
\* the seconds from entry to exit, and at least one: 10 minutes bill 1
\* hour, 125 minutes bill 2 hours.
C7_HorasCobradas ==
    \A i \in 1..Len(historial) :
        LET r == historial[i]
            e == Segundos(r)
        IN  /\ r.horas >= 1
            /\ e < 3600 => r.horas = 1
            /\ e >= 3600 => (r.horas * 3600 <= e /\ e < (r.horas + 1) * 3600)
            /\ e = 600 => r.horas = 1
            /\ e = 7500 => r.horas = 2

\* one stay of 10 minutes and one of 125 minutes were billed
C7_Witness ==
    /\ \E i \in 1..Len(historial) :
          Segundos(historial[i]) = 600 /\ historial[i].horas = 1
    /\ \E i \in 1..Len(historial) :
          Segundos(historial[i]) = 7500 /\ historial[i].horas = 2

\* C8 as stated: the billed hours are the stay rounded up to whole hours,
\* and at least one.
C8_HorasHaciaArriba ==
    \A i \in 1..Len(historial) :
        historial[i].horas = Max(1, Techo(Segundos(historial[i])))

\* C8 as amended: the billed hours are the stay rounded down to whole
\* hours, and at least one: the rounded-up hours for a stay of at most one
\* hour or of a whole number of hours, one less for any other stay.
C8_HorasHaciaAbajo ==
    \A i \in 1..Len(historial) :
        LET r == historial[i]
            e == Segundos(r)
        IN  r.horas = IF e <= 3600 \/ e % 3600 = 0
                      THEN Max(1, Techo(e))
                      ELSE Techo(e) - 1

\* a stay of more than an hour that is no whole number of hours was billed
C8_Witness ==
    \E i \in 1..Len(historial) :
        /\ Segundos(historial[i]) > 3600
        /\ Segundos(historial[i]) % 3600 # 0
        /\ historial[i].horas = Techo(Segundos(historial[i])) - 1

\* C9: the total of a historial record is hours times the rate of the type
\* for normal, nine tenths of that for frecuente (3 hours at 1000 pay
\* 2700), and 0 for mensual; a type the tariff table does not list pays the
\* default rate.
C9_TotalCobrado ==
    \A i \in 1..Len(historial) :
        LET r == historial[i]
            base == r.horas * TarifaDe(r.tipo)
        IN  /\ r.cliente = "normal" => r.total = base
            /\ r.cliente = "frecuente" => 10 * r.total = 9 * base
            /\ r.cliente = "mensual" => r.total = 0
            /\ (r.cliente = "frecuente" /\ r.horas = 3 /\ TarifaDe(r.tipo) = 1000)
                  => r.total = 2700

\* a frecuente stay of 3 hours of a type outside the tariff table paid
\* 2700, and a mensual stay of 2 hours paid nothing
C9_Witness ==
    /\ \E i \in 1..Len(historial) :
          /\ historial[i].cliente = "frecuente"
          /\ historial[i].tipo \notin DOMAIN tarifas
          /\ historial[i].horas = 3
          /\ historial[i].total = 2700
    /\ \E i \in 1..Len(historial) :
          /\ historial[i].cliente = "mensual"
          /\ historial[i].horas = 2
          /\ historial[i].total = 0

\* C10: what guardar_datos writes, loaded by cargar_datos into a new
\* Parqueadero at a later time, is the capacity map, the active sessions in
\* their order with all their fields, and the history that were saved.
C10_IdaYVuelta ==
    cargar_datos(guardar_datos(cupos, vehiculos, historial, archivo, "ok"),
                 Config, <<>>, <<>>, ahora + 1000)
        = <<cupos, vehiculos, historial>>

\* a session without coordinates that entered after the start is parked,
\* and a record with coordinates and no operator is in the history
C10_Witness ==
    /\ \E i \in 1..Len(vehiculos) :
          /\ vehiculos[i].lat = PyNone
          /\ vehiculos[i].hora_entrada # Strftime(0)
          /\ vehiculos[i].visitas = 2
    /\ \E i \in 1..Len(historial) :
          /\ historial[i].lat # PyNone
          /\ historial[i].operador = PyNone

\* C11: once a registrar_entrada or a registrar_salida has returned its
\* result, archivo_json holds exactly the cupos, vehiculos and historial in
\* memory; a refused entry and an exit that finds no vehicle write nothing.
C11_EscrituraInmediata ==
    /\ [](ret.ok => archivo = Payload(cupos, vehiculos, historial))
    /\ [][(ret' = SinCupos \/ ret'.kind = "None") => archivo' = archivo]_vars

\* an exit returned its record while a vehicle is still parked, and the
\* record is in archivo_json
C11_Witness ==
    /\ ret.kind = "registro"
    /\ Len(vehiculos) >= 1
    /\ archivo.historial # <<>>

\* C16: when the save of an entry or of an exit fails, the caller gets the
\* exception and the ledger keeps the change: the session stays appended
\* (or removed and recorded in historial), the counter stays moved, and
\* capacity plus active sessions still is the configured total.
C16_SinDeshacer ==
    [][/\ \A a \in Ocasionales, o \in Fallos \ {"ok"} :
            (registrar_entrada(a, o) /\ Get(cupos, Lower(a.tipo), 0) > 0)
            => /\ ret' = Raise
               /\ Len(vehiculos') = Len(vehiculos) + 1
               /\ vehiculos'[Len(vehiculos')].placa = Upper(a.placa)
               /\ historial' = historial
               /\ \A t \in TiposNombrados :
                     /\ Get(cupos', t, 0) =
                          Get(cupos, t, 0) - (IF t = Lower(a.tipo) THEN 1 ELSE 0)
                     /\ Get(cupos', t, 0)
                          + Cardinality({i \in 1..Len(vehiculos') :
                                            vehiculos'[i].tipo = t})
                          = Get(Config, t, 0)
       /\ \A p \in Placas, o \in Fallos \ {"ok"} :
            (/\ registrar_salida(p, o)
             /\ \E i \in 1..Len(vehiculos) : vehiculos[i].placa = Upper(p))
            => /\ ret' = Raise
               /\ Len(vehiculos') = Len(vehiculos) - 1
               /\ Len(historial') = Len(historial) + 1
               /\ historial'[Len(historial')].placa = Upper(p)
               /\ \A t \in TiposNombrados :
                     /\ Get(cupos', t, 0) =
                          Get(cupos, t, 0)
                          + (IF t = historial'[Len(historial')].tipo THEN 1 ELSE 0)
                     /\ Get(cupos', t, 0)
                          + Cardinality({i \in 1..Len(vehiculos') :
                                            vehiculos'[i].tipo = t})
                          = Get(Config, t, 0)]_vars

\* the save of an exit failed: the record is in historial, a vehicle is
\* still parked, and archivo_json does not hold the ledger
C16_Witness ==
    /\ ret = Raise
    /\ Len(historial) = 1
    /\ Len(vehiculos) >= 1
    /\ archivo # Payload(cupos, vehiculos, historial)

\* how many times x occurs in the sequence s
Veces(s, x) == Cardinality({i \in 1..Len(s) : s[i] = x})

\* the positions of the parked vehicles that entered more than 24 hours ago
Demorados ==
    {i \in 1..Len(vehiculos) :
        ahora - Strptime(vehiculos[i].hora_entrada) > 24 * 3600 * 1000}

\* C12: alertas returns exactly one 24-hour message for each parked vehicle
\* whose time since entry exceeds 24 hours and none for the other vehicles,
\* exactly one low-capacity message for each type whose counter is exactly 1
\* and none for a type at 0 or at 2 or more, nothing else, and it changes
\* no field of the ledger nor the file.
C12_AlertasExactas ==
    [][alertas =>
        /\ ret'.kind = "list"
        /\ \A p \in {Upper(q) : q \in Placas} :
              Veces(ret'.alerts, Mensaje24(p))
                = Cardinality({i \in Demorados : vehiculos[i].placa = p})
        /\ \A t \in TiposNombrados :
              Veces(ret'.alerts, MensajeCupo(t))
                = IF t \in DOMAIN cupos /\ cupos[t] = 1 THEN 1 ELSE 0
        /\ Len(ret'.alerts)
              = Cardinality(Demorados)
                + Cardinality({t \in DOMAIN cupos : cupos[t] = 1})
        /\ UNCHANGED <<cupos, vehiculos, historial, operador_actual, archivo>>
    ]_vars

\* alertas answered with two vehicles parked, one for over 24 hours and one
\* for less, no moto slot left and one camion slot left
C12_Witness ==
    /\ ret.kind = "list"
    /\ ret.alerts = <<Mensaje24("AB1"), MensajeCupo("camion")>>
    /\ Len(vehiculos) = 2
    /\ Cardinality(Demorados) = 1
    /\ cupos["moto"] = 0

\* the sequence s is an initial part of the sequence t
EsPrefijo(s, t) == Len(s) <= Len(t) /\ SubSeq(t, 1, Len(s)) = s

\* C13: across registrar_entrada and registrar_salida calls the history
\* before a call is a prefix of the history after it; an exit that finds
\* the plate appends exactly one record, at the end, the one it returns;
\* an entry and an exit that finds no plate leave the history as it was.
C13_HistorialSoloCrece ==
    [][ /\ EsPrefijo(historial, historial')
        /\ \A p \in Placas :
              registrar_salida(p, "ok") =>
                 IF primero(vehiculos, Upper(p)) = 0
                 THEN historial' = historial
                 ELSE /\ Len(historial') = Len(historial) + 1
                      /\ <<historial'[Len(historial')]>> = ret'.registro
                      /\ historial'[Len(historial')].placa = Upper(p)
        /\ \A a \in Llegadas :
              registrar_entrada(a, "ok") => historial' = historial
    ]_vars

\* a second exit was recorded after a different first one: the history holds
\* both in the order of the exits
C13_Witness ==
    /\ Len(historial) = 2
    /\ ret.kind = "registro"
    /\ ret.registro = <<historial[2]>>
    /\ historial[1] # historial[2]
    /\ Strptime(historial[1].hora_salida) < Strptime(historial[2].hora_salida)

\* C14: in every reachable state no session, identified by its plate
\* together with its entry time, is at once among the parked vehicles and
\* in the history; a plate that left is parked again only as a session
\* with a new entry time.
C14_SesionUnaVez ==
    \A i \in 1..Len(vehiculos), j \in 1..Len(historial) :
        ~ /\ vehiculos[i].placa = historial[j].placa
          /\ vehiculos[i].hora_entrada = historial[j].hora_entrada

\* cargar_datos reads all of the document f
Legible(f) ==
    /\ f.valido
    /\ \A i \in 1..Len(f.vehiculos) : ~sin_placa(f.vehiculos[i])

\* C15: when archivo_json exists but cannot be loaded, the new process
\* starts from the empty initial state: cupos as configured, no parked
\* vehicle and no history, never a mix of stored and default fields.
C15_CargaTodoONada ==
    [][(Reiniciar /\ archivo.existe /\ ~Legible(archivo)) =>
          /\ cupos' = Config
          /\ vehiculos' = <<>>
          /\ historial' = <<>>
    ]_vars

\* C17: what ver_ocupacion and ver_cupos returned is a snapshot: the value
\* the caller holds is the same after a later registrar_entrada or
\* registrar_salida call as it was when it was returned.
C17_Instantaneas ==
    [][ret.kind = "ref" =>
          /\ ret.registro = <<"self.cupos">> =>
                cupos' = Deref("self.cupos")
          /\ ret.registro = <<"self.vehiculos">> =>
                vehiculos' = Deref("self.vehiculos")
    ]_vars

\* C18: a registrar_entrada that finds room returns the low-capacity alert
\* if and only if the counter of the vehicle's type is exactly 1 after the
\* decrement, the frequent-customer alert if and only if the tier left on
\* the parked vehicle is "frecuente", and no other alert.
C18_AlertasDeEntrada ==
    [][\A a \in Llegadas :
          (registrar_entrada(a, "ok") /\ Get(cupos, Lower(a.tipo), 0) > 0) =>
             LET poco == cupos'[Lower(a.tipo)] = 1
                 frec == vehiculos'[Len(vehiculos')].cliente = "frecuente"
             IN  /\ ret'.kind = "tuple" /\ ret'.ok
                 /\ Veces(ret'.alerts, "queda 1 cupo") = IF poco THEN 1 ELSE 0
                 /\ Veces(ret'.alerts, "cliente frecuente")
                       = IF frec THEN 1 ELSE 0
                 /\ Len(ret'.alerts)
                       = (IF poco THEN 1 ELSE 0) + (IF frec THEN 1 ELSE 0)
    ]_vars

\* the fifth visit of a plate took the last slot but one: both alerts, for
\* a vehicle that arrived as "normal" or "mensual"
C18_Witness ==
    /\ ret.kind = "tuple" /\ ret.ok
    /\ ret.alerts = <<"queda 1 cupo", "cliente frecuente">>
    /\ Len(historial) >= 4
    /\ vehiculos[Len(vehiculos)].visitas >= 5

\* C20: a registrar_entrada that finds room appends its vehicle and takes
\* one slot of its type only; a registrar_salida of that plate right after
\* it, when no other parked vehicle has the plate, removes that vehicle and
\* gives the slot back, so that cupos and vehiculos are what they were
\* before the entry, and the history is one record longer, for that plate;
\* neither call changes the counter of another type.
C20_EntradaYSalida ==
    [][ /\ \A a \in Llegadas, o \in Resultados :
              (registrar_entrada(a, o) /\ Get(cupos, Lower(a.tipo), 0) > 0) =>
                 /\ Len(vehiculos') = Len(vehiculos) + 1
                 /\ SubSeq(vehiculos', 1, Len(vehiculos)) = vehiculos
                 /\ vehiculos'[Len(vehiculos')].placa = Upper(a.placa)
                 /\ DOMAIN cupos' = DOMAIN cupos
                 /\ \A t \in DOMAIN cupos :
                       cupos'[t] = IF t = Lower(a.tipo) THEN cupos[t] - 1
                                   ELSE cupos[t]
                 /\ historial' = historial
        /\ \A p \in Placas, o \in Resultados :
              ( /\ registrar_salida(p, o)
                /\ ret.kind = "tuple" /\ ret.ok
                /\ vehiculos[Len(vehiculos)].placa = Upper(p)
                /\ \A i \in 1..(Len(vehiculos) - 1) :
                      vehiculos[i].placa # Upper(p) ) =>
                 /\ vehiculos' = SubSeq(vehiculos, 1, Len(vehiculos) - 1)
                 /\ DOMAIN cupos' = DOMAIN cupos
                 /\ \A t \in DOMAIN cupos :
                       cupos'[t] = IF t = vehiculos[Len(vehiculos)].tipo
                                   THEN cupos[t] + 1 ELSE cupos[t]
                 /\ Len(historial') = Len(historial) + 1
                 /\ SubSeq(historial', 1, Len(historial)) = historial
                 /\ historial'[Len(historial')].placa = Upper(p)
    ]_vars

\* AB1 left while CD2 stays parked: the moto slots are all free again, the
\* camion slot is still taken, and the history holds the record of AB1
C20_Witness ==
    /\ ret.kind = "registro"
    /\ Len(vehiculos) = 1 /\ vehiculos[1].placa = "CD2"
    /\ Len(historial) = 1 /\ historial[1].placa = "AB1"
    /\ cupos = [Config EXCEPT !["camion"] = CuposCamion - 1]

\* C19: a save is one atomic write: after any step, also one whose save
\* failed part-way, archivo_json holds either the complete document it held
\* before or the complete document of the new state, never an empty or
\* cut-off one.
C19_GuardadoAtomico ==
    [][ \/ archivo' = archivo
        \/ archivo' = Payload(cupos', vehiculos', historial')
    ]_vars

=============================================================================
